---------------------------- MODULE Spec2Model ----------------------------
(***************************************************************************)
(* A state-machine model of the Gmail email archiver.                      *)
(*                                                                         *)
(* src/email_archiver.ts holds two variants of the transfer script          *)
(* (variant 1: lines 1-311, one pass per label with an existence check;    *)
(* variant 2: lines 312-639, one pass over all messages with a labelMap).  *)
(* src/unnamed/part_000 holds the RateLimiter and exponentialBackoff.      *)
(*                                                                         *)
(* One action is one stretch of code between two awaits: a remote call     *)
(* together with the synchronous code that follows its completion.         *)
(***************************************************************************)
EXTENDS Integers, Sequences, FiniteSets, TLC

(***************************************************************************)
(* Bounds of the model.                                                    *)
(***************************************************************************)
\* largest number of messages in the source mailbox
MaxMsgs == 2
\* largest length of one page of a messages.list response (stands for the
\* maxResults: 500 of line 471 and for the API's default in variant 1)
MaxPageLen == 2
\* largest number of remote calls that fail in one run
MaxFailures == 1
\* number of callers of waitForToken
MaxCallers == 3
\* ms the clock advances by in one step
TickMs == 250
\* ms after construction up to which the clock is observed
MaxClock == 3000

\* the retry ceiling the specification names (no line of src/ sets it)
maxRetries == 5

(***************************************************************************)
(* Strings.                                                                *)
(***************************************************************************)
\* String.prototype.startsWith
StartsWith(s, p) == Len(s) >= Len(p) /\ SubSeq(s, 1, Len(p)) = p

\* a comparison that keeps the case of the answer
ToLowerCase_Same(s) == s

\* String.prototype.toLowerCase, on the answers the model types
ToLowerCase(s) ==
  CASE s = "Y" -> "y"
    [] s = "YES" -> "yes"
    [] s = "Yes" -> "yes"
    [] s = "N" -> "n"
    [] s = "NO" -> "no"
    [] OTHER -> s

\* what the operator may type at the prompt
Answers == {"y", "yes", "YES", "n", "no", ""}

\* process.env.SOURCE_EMAIL
sourceEmail == "s@x"

(***************************************************************************)
(* The source mailbox.                                                     *)
(***************************************************************************)
\* labels.list of the source account, in the order the API returns them;
\* a system label's id is its name
SourceLabelList ==
  << [id |-> "INBOX", name |-> "INBOX"],
     [id |-> "SENT", name |-> "SENT"],
     [id |-> "DRAFT", name |-> "DRAFT"],
     [id |-> "UNREAD", name |-> "UNREAD"],
     [id |-> "CATEGORY_SOCIAL", name |-> "CATEGORY_SOCIAL"],
     [id |-> "Label_1", name |-> "Work"] >>

\* (Subject header, internalDate in ms) of a source message
Headers == { <<"a", 10000>>, <<"b", 10000>> }

\* the headers of n messages; subjects are interchangeable, so the first
\* message has subject "a"
HeaderChoices(n) == {h \in [1..n -> Headers] : n = 0 \/ h[1][1] = "a"}

MsgIdOf == <<"m1", "m2", "m3", "m4">>

\* the labelIds a source message may have: none, a system label, a system
\* and a user label, and either with a label the filters name
LabelSets ==
  { {}, {"INBOX", "Label_1"}, {"INBOX", "UNREAD"},
    {"Label_1", "CATEGORY_SOCIAL"} }

\* every source mailbox of n messages
Mailboxes(n) ==
  { [p \in 1..n |-> [id |-> MsgIdOf[p], subject |-> h[p][1],
                     internalDate |-> h[p][2], labelIds |-> l[p]]] :
      h \in HeaderChoices(n), l \in [1..n -> LabelSets] }

\* the labels already in the destination account when the script starts
DestLabelStates ==
  { {},
    { [id |-> "Label_90", name |-> sourceEmail],
      [id |-> "Label_91", name |-> sourceEmail \o "/Work"] } }

Min(a, b) == IF a <= b THEN a ELSE b

RECURSIVE SeqOfSet(_, _)
\* the members of S in the order of the sequence `order`
SeqOfSet(S, order) ==
  IF order = <<>> THEN <<>>
  ELSE (IF Head(order) \in S THEN <<Head(order)>> ELSE <<>>)
         \o SeqOfSet(S, Tail(order))

\* the order in which the API lists a message's labelIds
LabelIdOrder == <<"INBOX", "SENT", "DRAFT", "UNREAD", "CATEGORY_SOCIAL", "Label_1">>

Range(s) == {s[p] : p \in DOMAIN s}


(***************************************************************************)
(* State.                                                                  *)
(***************************************************************************)
VARIABLES
  variant,        \* 1 or 2: which transferEmails of email_archiver.ts runs
  isDryRun,       \* process.argv.includes('--dry-run')
  run,            \* 1 for the first invocation of main, 2 for a re-run
  prevSummary,    \* the summary the dry run before this run returned
  prevClean,      \* whether that dry run saw no remote failure
  srcLabels,      \* the source account: its labels
  srcMessages,    \* the source account: its messages, in list order
  pageLen,        \* the length of the pages the API answers messages.list with
  destLabels,     \* the archive account: its labels
  destMessages,   \* the archive account: its messages
  calls,          \* every remote call issued in this run, in order
  inflight,       \* indexes in calls of the calls not yet completed
  pc,             \* the await the script is suspended at
  outcome,        \* running, returned, exited (process.exit) or threw
  failures,       \* the remote calls that have failed in this run
  listed,         \* response.data.messages of the last messages.list
  emails,         \* allEmails / emails of getAllUniqueEmails
  i,              \* index of the message being processed
  resolved,       \* labelNames of the message being fetched, by label id
  answer,         \* the line rl.question hands its callback
  affirmed,       \* whether the line typed in this run said yes
  prompts,        \* how many times the prompt was asked in this run
  confirmed,      \* the boolean promptForConfirmation resolved with
  summary,        \* the TransferSummary being built
  mainLabelId,
  labelMap,       \* variant 2: source label name -> destination label id
  labelIds,       \* variant 2: the addLabelIds being accumulated
  importedId,     \* importRes.data.id
  j,              \* index in email.labels
  cgName,         \* the name createOrGetLabel was called with
  cgCaller,       \* the call site createOrGetLabel returns to
  sourceLabels,   \* variant 1: the filtered labels getLabels returned
  k,              \* variant 1: index of the label being processed
  sublabelId,     \* variant 1
  emailsTransferred, \* variant 1
  rate,           \* rateLimiter.tokensPerSecond, in thousandths of a token
  tokens,         \* rateLimiter.tokens, in millionths of a token
  ellapsedMs,     \* Date.now() - rateLimiter.lastRefill, ms, up to a second
  clock,          \* Date.now() - the time of construction, ms, up to MaxClock
  acquired,       \* the waitForToken calls that have returned
  at,             \* per caller: idle, sleep (in await sleep) or returned
  due,            \* per caller: ms until its setTimeout may fire
  burst,          \* every waitForToken call so far was made at clock 0
  retries,        \* the argument of the exponentialBackoff call, 0 before it
  random,         \* Math.random() * 1000 of that call, in whole ms
  slept,          \* the ms the timer of that call's sleep was armed for
  backoff         \* idle, sleep (in await sleep(delay)) or returned

cfgVars == <<variant, isDryRun, run, prevSummary, prevClean>>
srcVars == <<srcLabels, srcMessages, pageLen>>
destVars == <<destLabels, destMessages>>
fetchVars == <<listed, emails, i, resolved>>
gateVars == <<answer, affirmed, prompts, confirmed>>
xferVars == <<summary, mainLabelId, labelMap, labelIds, importedId, j>>
cgVars == <<cgName, cgCaller>>
v1Vars == <<sourceLabels, k, sublabelId, emailsTransferred>>
limiterVars == <<rate, tokens, ellapsedMs, clock, acquired, at, due, burst>>
backoffVars == <<retries, random, slept, backoff>>
vars == <<cfgVars, srcVars, destVars, calls, inflight, pc, outcome, failures,
          fetchVars, gateVars, xferVars, cgVars, v1Vars, limiterVars, backoffVars>>

\* new RateLimiter(2)
tokensPerSecond == 2

\* the 1000 of lines 19 and 23: ms in a second
MsPerSecond == 1000

\* one token, in millionths
OneToken == MsPerSecond * 1000

Callers == 1..MaxCallers

\* the constructor (lines 10-14) called with r thousandths of a token per
\* second, and no caller yet
NewRateLimiter(r) ==
  /\ rate = r
  /\ tokens = r * 1000
  /\ ellapsedMs = 0
  /\ clock = 0
  /\ acquired = 0
  /\ at = [c \in Callers |-> "idle"]
  /\ due = [c \in Callers |-> 0]
  /\ burst = TRUE

NoSummary == [labelsCreated |-> <<>>, totalEmailsTransferred |-> 0]
EmptyMap == [n \in {} |-> ""]

\* every request sent on the source handle
Call_OnSource(acct, op, id, name, labels, res, more) ==
  [acct |-> "source", op |-> op, id |-> id, name |-> name, labels |-> labels,
   res |-> res, more |-> more]

\* one remote call: the account, the operation, its arguments and its result
\* (res: ok, transient, fatal, or pending while in flight; more: the response
\* carried a nextPageToken)
Call(acct, op, id, name, labels, res, more) ==
  [acct |-> acct, op |-> op, id |-> id, name |-> name, labels |-> labels,
   res |-> res, more |-> more]

\* the results a remote call may have
Results == IF failures < MaxFailures THEN {"ok", "transient", "fatal"} ELSE {"ok"}

Failed(r) == IF r = "ok" THEN 0 ELSE 1

\* an await that never rejects
Rejects_Never(r) == FALSE

\* the awaited request rejects, and the await throws
Rejects(r) == r # "ok"

\* exponentialBackoff has not been called
NoBackoff == retries = 0 /\ random = 0 /\ slept = 0 /\ backoff = "idle"

\* the state main starts transferEmails in
RunStart(v) ==
  /\ calls = <<>> /\ inflight = {} /\ outcome = "running" /\ failures = 0
  /\ pc = IF v = 1 THEN "getLabels" ELSE "getAllUniqueEmails_list"
  /\ listed = <<>> /\ emails = <<>> /\ i = 0 /\ resolved = EmptyMap
  /\ answer = "" /\ affirmed = FALSE /\ prompts = 0 /\ confirmed = FALSE
  /\ summary = NoSummary /\ mainLabelId = "" /\ labelMap = EmptyMap
  /\ labelIds = <<>> /\ importedId = "" /\ j = 0
  /\ cgName = "" /\ cgCaller = ""
  /\ sourceLabels = <<>> /\ k = 0 /\ sublabelId = "" /\ emailsTransferred = 0

Init ==
  /\ variant \in {1, 2}
  /\ isDryRun \in BOOLEAN
  /\ run = 1 /\ prevSummary = NoSummary /\ prevClean = FALSE
  /\ srcLabels = SourceLabelList
  /\ \E n \in 0..MaxMsgs : srcMessages \in Mailboxes(n)
  /\ pageLen \in 1..MaxPageLen
  /\ destLabels \in DestLabelStates
  /\ destMessages = <<>>
  /\ RunStart(variant)
  /\ NewRateLimiter(tokensPerSecond * MsPerSecond)
  /\ NoBackoff

\* an error that reaches main's catch (lines 298-305, 618-629)
Throw == outcome' = "threw" /\ pc' = "done"

\* response.data.messages of one messages.list: the first page only
FirstPage(msgs) == [p \in 1..Min(Len(msgs), pageLen) |-> msgs[p].id]

SrcMessage(id) == CHOOSE m \in Range(srcMessages) : m.id = id

LabelName(id) == (CHOOSE l \in Range(srcLabels) : l.id = id).name

(***************************************************************************)
(* The confirmation prompt.                                                *)
(***************************************************************************)
\* a prompt that resolves true whatever is typed
Confirmed_Always(a) == TRUE

\* lines 42, 353: the boolean promptForConfirmation resolves with
Confirmed(a) == ToLowerCase(a) = "y" \/ ToLowerCase(a) = "yes"

\* the lines that say yes
Affirmative(a) == a \in {"y", "Y", "yes", "YES"}

\* the filter of variant 2's loops: the label is not mirrored
IsExcluded(label) ==
  StartsWith(label, "CATEGORY_") \/ label \in {"UNREAD", "STARRED", "IMPORTANT"}

Put(m, key, v) == [n \in DOMAIN m \cup {key} |-> IF n = key THEN v ELSE m[n]]

\* a loop that forgets labelMap
NeedsMirror_Always(map, label) == TRUE

\* line 551: the label has no destination id in labelMap yet
NeedsMirror(map, label) == label \notin DOMAIN map

\* a loop that ignores isDryRun
LiveBranch_Always(dry) == TRUE

\* lines 541 and 177: the branch that imports and labels the message
LiveBranch(dry) == ~dry

RECURSIVE Scan(_, _, _, _)
\* lines 549-558, run from label jj up to the next createOrGetLabel: the ids
\* pushed so far, and whether label j still needs its destination label
Scan(labels, jj, acc, map) ==
  IF jj > Len(labels) THEN [j |-> jj, ids |-> acc, need |-> FALSE]
  ELSE IF IsExcluded(labels[jj]) THEN Scan(labels, jj + 1, acc, map)
  ELSE IF NeedsMirror(map, labels[jj]) THEN [j |-> jj, ids |-> acc, need |-> TRUE]
  ELSE Scan(labels, jj + 1, Append(acc, map[labels[jj]]), map)

RECURSIVE DryLabels(_, _, _)
\* lines 567-574: the labels a dry run would create for one message
DryLabels(labels, map, created) ==
  IF labels = <<>> THEN [map |-> map, created |-> created]
  ELSE LET l == Head(labels) IN
       IF ~IsExcluded(l) /\ NeedsMirror(map, l)
       THEN DryLabels(Tail(labels), Put(map, l, "dry-run-label-" \o l),
                      Append(created, sourceEmail \o "/" \o l))
       ELSE DryLabels(Tail(labels), map, created)

(***************************************************************************)
(* Variant 2: getAllUniqueEmails (lines 468-495).                          *)
(***************************************************************************)
\* lines 469-475: one messages.list; its nextPageToken is never read
getAllUniqueEmails_list ==
  /\ pc = "getAllUniqueEmails_list"
  /\ \E r \in Results :
       /\ calls' = Append(calls, Call("source", "messages.list", "", "", {}, r,
                                      r = "ok" /\ Len(srcMessages) > pageLen))
       /\ failures' = failures + Failed(r)
       /\ IF r = "ok"
          THEN /\ listed' = FirstPage(srcMessages)
               /\ i' = 1
               /\ pc' = IF listed' = <<>> THEN "promptForConfirmation"
                        ELSE "getAllUniqueEmails_get"
               /\ UNCHANGED outcome
          ELSE Throw /\ UNCHANGED <<listed, i>>
  /\ UNCHANGED <<cfgVars, srcVars, destVars, inflight, emails, resolved,
                 gateVars, xferVars, cgVars, v1Vars, limiterVars, backoffVars>>

\* lines 487-492: push the email and go on to the next message
PushEmail(names) ==
  /\ emails' = Append(emails, [id |-> listed[i], raw |-> listed[i], labels |-> names])
  /\ IF i < Len(listed)
     THEN i' = i + 1 /\ pc' = "getAllUniqueEmails_get"
     ELSE i' = i /\ pc' = "promptForConfirmation"

\* lines 476-485: messages.get, then every resolveLabelName is started at once
getAllUniqueEmails_get ==
  /\ pc = "getAllUniqueEmails_get"
  /\ \E r \in Results :
       LET m == SrcMessage(listed[i])
           ids == SeqOfSet(m.labelIds, LabelIdOrder)
           base == Append(calls, Call("source", "messages.get", m.id, "", {}, r, FALSE))
       IN /\ failures' = failures + Failed(r)
          /\ IF r = "ok"
             THEN /\ calls' = base \o [p \in 1..Len(ids) |->
                                Call("source", "labels.get", ids[p], "", {}, "pending", FALSE)]
                  /\ inflight' = (Len(base) + 1)..(Len(base) + Len(ids))
                  /\ resolved' = EmptyMap
                  /\ IF ids = <<>>
                     THEN PushEmail(<<>>)
                     ELSE pc' = "resolveLabelName" /\ UNCHANGED <<emails, i>>
                  /\ UNCHANGED outcome
             ELSE /\ calls' = base
                  /\ Throw
                  /\ UNCHANGED <<inflight, resolved, emails, i>>
  /\ UNCHANGED <<cfgVars, srcVars, destVars, listed, gateVars, xferVars,
                 cgVars, v1Vars, limiterVars, backoffVars>>

\* a catch block that returns nothing usable
ResolvedName_Lost(id, r) == IF r = "ok" THEN LabelName(id) ELSE ""

\* lines 461-465: response.data.name, or the label id from the catch block
ResolvedName(id, r) == IF r = "ok" THEN LabelName(id) ELSE id

\* lines 455-466: one labels.get completes; a failure yields the raw id
resolveLabelName ==
  /\ pc = "resolveLabelName"
  /\ \E c \in inflight, r \in Results :
       LET id == calls[c].id
           ids == SeqOfSet(SrcMessage(listed[i]).labelIds, LabelIdOrder)
       IN /\ calls' = [calls EXCEPT ![c].res = r]
          /\ inflight' = inflight \ {c}
          /\ failures' = failures + Failed(r)
          /\ resolved' = Put(resolved, id, ResolvedName(id, r))
          /\ IF inflight' = {}
             THEN PushEmail([p \in 1..Len(ids) |-> resolved'[ids[p]]])
             ELSE UNCHANGED <<emails, i, pc>>
  /\ UNCHANGED <<cfgVars, srcVars, destVars, outcome, listed, gateVars,
                 xferVars, cgVars, v1Vars, limiterVars, backoffVars>>

(***************************************************************************)
(* transferEmails: the prompt and the main label (lines 232-250, 518-538). *)
(***************************************************************************)
\* the await the message loop of variant 2 starts at
LoopPc == IF LiveBranch(isDryRun) THEN "transferEmails_import" ELSE "transferEmails_dry"

\* the code after the main label is known: the loops of lines 253 and 540
EnterLoop ==
  IF variant = 2
  THEN /\ k' = k
       /\ IF emails = <<>>
          THEN outcome' = "returned" /\ pc' = "done" /\ i' = i
          ELSE outcome' = outcome /\ pc' = LoopPc /\ i' = 1
  ELSE /\ k' = 1 /\ i' = i /\ outcome' = outcome
       /\ pc' = "transferEmailsForLabel_list"

\* lines 33-41, 344-352: the prompt is shown and a line is typed
promptForConfirmation ==
  /\ pc = "promptForConfirmation"
  /\ \E a \in Answers : answer' = a
  /\ prompts' = prompts + 1
  /\ pc' = "transferEmails_confirmed"
  /\ UNCHANGED <<cfgVars, srcVars, destVars, calls, inflight, outcome,
                 failures, fetchVars, affirmed, confirmed, xferVars, cgVars,
                 v1Vars, limiterVars, backoffVars>>

\* lines 42 and 236-250, 353 and 522-536 (the same code in both variants)
transferEmails_confirmed ==
  /\ pc = "transferEmails_confirmed"
  /\ confirmed' = Confirmed(answer)
  /\ affirmed' = Affirmative(answer)
  /\ answer' = ""
  /\ IF ~confirmed'
     THEN \* process.exit(0)
          /\ outcome' = "exited" /\ pc' = "done"
          /\ UNCHANGED <<summary, mainLabelId, cgVars, i, k>>
     ELSE IF isDryRun
     THEN /\ mainLabelId' = "dry-run-main-label"
          /\ summary' = [labelsCreated |-> <<sourceEmail>>,
                         totalEmailsTransferred |-> 0]
          /\ EnterLoop
          /\ UNCHANGED cgVars
     ELSE /\ summary' = NoSummary
          /\ cgName' = sourceEmail /\ cgCaller' = "main"
          /\ pc' = "createOrGetLabel_lookup"
          /\ UNCHANGED <<mainLabelId, outcome, i, k>>
  /\ UNCHANGED <<cfgVars, srcVars, destVars, calls, inflight, failures,
                 listed, emails, resolved, prompts, labelMap, labelIds,
                 importedId, j, sourceLabels, sublabelId, emailsTransferred,
                 limiterVars, backoffVars>>

(***************************************************************************)
(* createOrGetLabel (lines 107-130, 418-441).                              *)
(***************************************************************************)
\* the code that runs when createOrGetLabel resolves with id
Return(id) ==
  CASE cgCaller = "main" ->
         \* lines 248-250, 534-538
         /\ mainLabelId' = id
         /\ summary' = [summary EXCEPT !.labelsCreated = Append(@, sourceEmail)]
         /\ EnterLoop
         /\ UNCHANGED <<labelMap, labelIds, j, cgVars, sublabelId, emailsTransferred>>
    [] cgCaller = "mirror" ->
         \* lines 552-558, then on through the labels of the message
         LET labels == emails[i].labels
             map == Put(labelMap, labels[j], id)
             s == Scan(labels, j + 1, Append(labelIds, map[labels[j]]), map)
         IN /\ labelMap' = map
            /\ summary' = [summary EXCEPT !.labelsCreated =
                             Append(@, sourceEmail \o "/" \o labels[j])]
            /\ labelIds' = s.ids
            /\ j' = s.j
            /\ IF s.need
               THEN /\ cgName' = sourceEmail \o "/" \o labels[s.j]
                    /\ cgCaller' = "mirror"
                    /\ pc' = "createOrGetLabel_lookup"
               ELSE pc' = "transferEmails_modify" /\ UNCHANGED cgVars
            /\ UNCHANGED <<mainLabelId, outcome, i, k, sublabelId, emailsTransferred>>
    [] OTHER ->
         \* lines 154-157
         /\ sublabelId' = id
         /\ emailsTransferred' = 0
         /\ i' = 1
         /\ pc' = "transferEmailsForLabel_metadata"
         /\ UNCHANGED <<summary, mainLabelId, labelMap, labelIds, j, cgVars,
                        outcome, k>>

\* lines 107-118, 418-429: getLabelByName, and the label found
createOrGetLabel_lookup ==
  /\ pc = "createOrGetLabel_lookup"
  /\ \E r \in Results :
       /\ calls' = Append(calls, Call("dest", "labels.list", "", cgName, {}, r, FALSE))
       /\ failures' = failures + Failed(r)
       /\ IF r # "ok"
          THEN /\ Throw
               /\ UNCHANGED <<i, k, xferVars, cgVars, sublabelId, emailsTransferred>>
          ELSE IF \E l \in destLabels : l.name = cgName
          THEN /\ Return((CHOOSE l \in destLabels : l.name = cgName).id)
               /\ UNCHANGED importedId
          ELSE /\ pc' = "createOrGetLabel_create"
               /\ UNCHANGED <<outcome, i, k, xferVars, cgVars, sublabelId,
                              emailsTransferred>>
  /\ UNCHANGED <<cfgVars, srcVars, destVars, inflight, listed, emails,
                 resolved, gateVars, sourceLabels, limiterVars, backoffVars>>

\* lines 120-129, 431-440: labels.create
createOrGetLabel_create ==
  /\ pc = "createOrGetLabel_create"
  /\ \E r \in Results :
       LET newId == "Label_" \o ToString(Cardinality(destLabels) + 1) IN
       /\ calls' = Append(calls, Call("dest", "labels.create", "", cgName, {}, r, FALSE))
       /\ failures' = failures + Failed(r)
       /\ IF r # "ok"
          THEN /\ Throw
               /\ UNCHANGED <<i, k, xferVars, cgVars, sublabelId,
                              emailsTransferred, destLabels>>
          ELSE /\ destLabels' = destLabels \cup {[id |-> newId, name |-> cgName]}
               /\ Return(newId)
               /\ UNCHANGED importedId
  /\ UNCHANGED <<cfgVars, srcVars, destMessages, inflight, listed, emails,
                 resolved, gateVars, sourceLabels, limiterVars, backoffVars>>

(***************************************************************************)
(* Variant 2: the message loop of transferEmails (lines 540-588).          *)
(***************************************************************************)
\* lines 576-579 and 587: count the message, go on to the next or return
NextEmail ==
  /\ summary' = [summary EXCEPT !.totalEmailsTransferred = @ + 1]
  /\ IF i < Len(emails)
     THEN i' = i + 1 /\ pc' = LoopPc /\ UNCHANGED outcome
     ELSE i' = i /\ pc' = "done" /\ outcome' = "returned"

\* lines 542-558: messages.import, then the labels up to the first
\* createOrGetLabel
transferEmails_import ==
  /\ pc = "transferEmails_import"
  /\ \E r \in Results :
       LET email == emails[i]
           m == SrcMessage(email.raw)
           newId == "d" \o ToString(Len(destMessages) + 1)
           s == Scan(email.labels, 1, <<mainLabelId>>, labelMap)
       IN /\ calls' = Append(calls, Call("dest", "messages.import", "", email.raw, {}, r, FALSE))
          /\ failures' = failures + Failed(r)
          /\ IF Rejects(r)
             THEN /\ Throw
                  /\ UNCHANGED <<destMessages, importedId, labelIds, j, cgVars>>
             ELSE /\ destMessages' = Append(destMessages,
                        [id |-> newId, raw |-> email.raw, subject |-> m.subject,
                         internalDate |-> m.internalDate, labelIds |-> {}])
                  /\ importedId' = newId
                  /\ labelIds' = s.ids
                  /\ j' = s.j
                  /\ IF s.need
                     THEN /\ cgName' = sourceEmail \o "/" \o email.labels[s.j]
                          /\ cgCaller' = "mirror"
                          /\ pc' = "createOrGetLabel_lookup"
                     ELSE pc' = "transferEmails_modify" /\ UNCHANGED cgVars
                  /\ UNCHANGED outcome
  /\ UNCHANGED <<cfgVars, srcVars, destLabels, inflight, fetchVars, gateVars,
                 summary, mainLabelId, labelMap, v1Vars, limiterVars, backoffVars>>

\* the labels of destination message id, after a messages.modify adding ids
Modified(msgs, id, ids) ==
  [p \in DOMAIN msgs |->
     IF msgs[p].id = id THEN [msgs[p] EXCEPT !.labelIds = @ \cup ids] ELSE msgs[p]]

\* lines 560-564 and 576-579: messages.modify with the accumulated ids
transferEmails_modify ==
  /\ pc = "transferEmails_modify"
  /\ \E r \in Results :
       /\ calls' = Append(calls, Call("dest", "messages.modify", importedId, "",
                                      Range(labelIds), r, FALSE))
       /\ failures' = failures + Failed(r)
       /\ IF r # "ok"
          THEN Throw /\ UNCHANGED <<destMessages, summary, i>>
          ELSE /\ destMessages' = Modified(destMessages, importedId, Range(labelIds))
               /\ NextEmail
  /\ UNCHANGED <<cfgVars, srcVars, destLabels, inflight, listed, emails,
                 resolved, gateVars, mainLabelId, labelMap, labelIds,
                 importedId, j, cgVars, v1Vars, limiterVars, backoffVars>>

\* lines 565-579: one message of a dry run
transferEmails_dry ==
  /\ pc = "transferEmails_dry"
  /\ LET d == DryLabels(emails[i].labels, labelMap, <<>>) IN
       /\ labelMap' = d.map
       /\ summary' = [labelsCreated |-> summary.labelsCreated \o d.created,
                      totalEmailsTransferred |-> summary.totalEmailsTransferred + 1]
       /\ IF i < Len(emails)
          THEN i' = i + 1 /\ pc' = LoopPc /\ UNCHANGED outcome
          ELSE i' = i /\ pc' = "done" /\ outcome' = "returned"
  /\ UNCHANGED <<cfgVars, srcVars, destVars, calls, inflight, failures,
                 listed, emails, resolved, gateVars, mainLabelId, labelIds,
                 importedId, j, cgVars, v1Vars, limiterVars, backoffVars>>

(***************************************************************************)
(* Variant 1: transferEmails and transferEmailsForLabel (lines 139-269).   *)
(***************************************************************************)
\* lines 79-82: the labels getLabels keeps
KeepLabel(name) == ~StartsWith(name, "CATEGORY_") /\ name \notin {"TRASH", "SPAM"}

SpecialNames == {"INBOX", "SENT", "DRAFT"}

\* lines 213, 253: the labels processed first
SpecialLabels ==
  << [id |-> "INBOX", name |-> "INBOX"], [id |-> "SENT", name |-> "SENT"],
     [id |-> "DRAFT", name |-> "DRAFT"] >>

IsOther(l) == l.name \notin SpecialNames

\* lines 213-228 and 253-266: the labels in the order both loops visit them
LabelQueue == SpecialLabels \o SelectSeq(sourceLabels, IsOther)

\* the source messages carrying label id, in list order
WithLabel(id) == SelectSeq(srcMessages, LAMBDA m : id \in m.labelIds)

\* lines 77-83: labels.list of the source and the filter
getLabels ==
  /\ pc = "getLabels"
  /\ \E r \in Results :
       /\ calls' = Append(calls, Call("source", "labels.list", "", "", {}, r, FALSE))
       /\ failures' = failures + Failed(r)
       /\ IF r = "ok"
          THEN /\ sourceLabels' = SelectSeq(srcLabels, LAMBDA l : KeepLabel(l.name))
               /\ k' = 1
               /\ pc' = "countEmailsForLabel"
               /\ UNCHANGED outcome
          ELSE Throw /\ UNCHANGED <<sourceLabels, k>>
  /\ UNCHANGED <<cfgVars, srcVars, destVars, inflight, fetchVars, gateVars,
                 xferVars, cgVars, sublabelId, emailsTransferred, limiterVars, backoffVars>>

\* lines 48-54 and 213-228: one messages.list per label, for the counts shown
countEmailsForLabel ==
  /\ pc = "countEmailsForLabel"
  /\ \E r \in Results :
       LET label == LabelQueue[k] IN
       /\ calls' = Append(calls, Call("source", "messages.list", label.id, "", {}, r,
                                      r = "ok" /\ Len(WithLabel(label.id)) > pageLen))
       /\ failures' = failures + Failed(r)
       /\ IF r = "ok"
          THEN /\ IF k < Len(LabelQueue)
                  THEN k' = k + 1 /\ pc' = "countEmailsForLabel"
                  ELSE k' = k /\ pc' = "promptForConfirmation"
               /\ UNCHANGED outcome
          ELSE Throw /\ UNCHANGED k
  /\ UNCHANGED <<cfgVars, srcVars, destVars, inflight, fetchVars, gateVars,
                 xferVars, cgVars, sourceLabels, sublabelId, emailsTransferred,
                 limiterVars, backoffVars>>

\* lines 254 and 260-268: transferEmailsForLabel returned n for label k
FinishLabel(n) ==
  /\ summary' =
       IF k <= Len(SpecialLabels)
       THEN [summary EXCEPT !.totalEmailsTransferred = @ + n]
       ELSE IF n > 0
       THEN [labelsCreated |-> Append(summary.labelsCreated,
                                      sourceEmail \o "/" \o LabelQueue[k].name),
             totalEmailsTransferred |-> summary.totalEmailsTransferred + n]
       ELSE summary
  /\ IF k < Len(LabelQueue)
     THEN k' = k + 1 /\ pc' = "transferEmailsForLabel_list" /\ UNCHANGED outcome
     ELSE k' = k /\ pc' = "done" /\ outcome' = "returned"

\* lines 140-157: the messages of the label (one page), then its sublabel
transferEmailsForLabel_list ==
  /\ pc = "transferEmailsForLabel_list"
  /\ \E r \in Results :
       LET label == LabelQueue[k] IN
       /\ calls' = Append(calls, Call("source", "messages.list", label.id, "", {}, r,
                                      r = "ok" /\ Len(WithLabel(label.id)) > pageLen))
       /\ failures' = failures + Failed(r)
       /\ IF r # "ok"
          THEN /\ Throw
               /\ UNCHANGED <<listed, i, summary, k, cgVars, sublabelId,
                              emailsTransferred>>
          ELSE /\ listed' = FirstPage(WithLabel(label.id))
               /\ IF listed' = <<>>
                  THEN /\ FinishLabel(0)
                       /\ UNCHANGED <<i, cgVars, sublabelId, emailsTransferred>>
                  ELSE IF isDryRun
                  THEN /\ sublabelId' = "dry-run-sublabel-" \o label.id
                       /\ emailsTransferred' = 0
                       /\ i' = 1
                       /\ pc' = "transferEmailsForLabel_metadata"
                       /\ UNCHANGED <<summary, k, cgVars, outcome>>
                  ELSE /\ cgName' = sourceEmail \o "/" \o label.name
                       /\ cgCaller' = "sublabel"
                       /\ pc' = "createOrGetLabel_lookup"
                       /\ UNCHANGED <<summary, k, i, sublabelId,
                                      emailsTransferred, outcome>>
  /\ UNCHANGED <<cfgVars, srcVars, destVars, inflight, emails, resolved,
                 gateVars, mainLabelId, labelMap, labelIds, importedId, j,
                 sourceLabels, limiterVars, backoffVars>>

\* lines 160-168: messages.get of the metadata
transferEmailsForLabel_metadata ==
  /\ pc = "transferEmailsForLabel_metadata"
  /\ \E r \in Results :
       /\ calls' = Append(calls, Call("source", "messages.get", listed[i], "", {}, r, FALSE))
       /\ failures' = failures + Failed(r)
       /\ IF r = "ok"
          THEN pc' = "checkIfEmailExists" /\ UNCHANGED outcome
          ELSE Throw
  /\ UNCHANGED <<cfgVars, srcVars, destVars, inflight, fetchVars, gateVars,
                 xferVars, cgVars, v1Vars, limiterVars, backoffVars>>

\* line 98: the query matches a destination message with this subject whose
\* date lies in [floor(d/1000 - 1), floor(d/1000 + 1)) seconds
Matches(dm, subject, internalDate) ==
  /\ dm.subject = subject
  /\ ((internalDate - 1000) \div 1000) * 1000 <= dm.internalDate
  /\ dm.internalDate < ((internalDate + 1000) \div 1000) * 1000

\* lines 196-201: count the message, go on to the next or return the count
NextMessage(n) ==
  /\ emailsTransferred' = n
  /\ IF i < Len(listed)
     THEN /\ i' = i + 1 /\ pc' = "transferEmailsForLabel_metadata"
          /\ UNCHANGED <<summary, k, outcome>>
     ELSE i' = i /\ FinishLabel(n)

\* lines 97-105 and 170-177: the existence check in the destination
checkIfEmailExists ==
  /\ pc = "checkIfEmailExists"
  /\ \E r \in Results :
       LET m == SrcMessage(listed[i]) IN
       /\ calls' = Append(calls, Call("dest", "messages.list", "", m.subject, {}, r, FALSE))
       /\ failures' = failures + Failed(r)
       /\ IF r # "ok"
          THEN Throw /\ UNCHANGED <<i, summary, k, emailsTransferred>>
          ELSE IF \E p \in DOMAIN destMessages :
                    Matches(destMessages[p], m.subject, m.internalDate)
          THEN NextMessage(emailsTransferred)
          ELSE IF LiveBranch(isDryRun)
          THEN /\ pc' = "transferEmailsForLabel_raw"
               /\ UNCHANGED <<i, summary, k, emailsTransferred, outcome>>
          ELSE NextMessage(emailsTransferred + 1)
  /\ UNCHANGED <<cfgVars, srcVars, destVars, inflight, listed, emails,
                 resolved, gateVars, mainLabelId, labelMap, labelIds,
                 importedId, j, cgVars, sourceLabels, sublabelId, limiterVars, backoffVars>>

\* lines 178-182: messages.get of the raw message
transferEmailsForLabel_raw ==
  /\ pc = "transferEmailsForLabel_raw"
  /\ \E r \in Results :
       /\ calls' = Append(calls, Call("source", "messages.get", listed[i], "", {}, r, FALSE))
       /\ failures' = failures + Failed(r)
       /\ IF r = "ok"
          THEN pc' = "transferEmailsForLabel_import" /\ UNCHANGED outcome
          ELSE Throw
  /\ UNCHANGED <<cfgVars, srcVars, destVars, inflight, fetchVars, gateVars,
                 xferVars, cgVars, v1Vars, limiterVars, backoffVars>>

\* lines 184-188: messages.import
transferEmailsForLabel_import ==
  /\ pc = "transferEmailsForLabel_import"
  /\ \E r \in Results :
       LET m == SrcMessage(listed[i])
           newId == "d" \o ToString(Len(destMessages) + 1)
       IN /\ calls' = Append(calls, Call("dest", "messages.import", "", m.id, {}, r, FALSE))
          /\ failures' = failures + Failed(r)
          /\ IF Rejects(r)
             THEN Throw /\ UNCHANGED <<destMessages, importedId>>
             ELSE /\ destMessages' = Append(destMessages,
                        [id |-> newId, raw |-> m.id, subject |-> m.subject,
                         internalDate |-> m.internalDate, labelIds |-> {}])
                  /\ importedId' = newId
                  /\ pc' = "transferEmailsForLabel_modify"
                  /\ UNCHANGED outcome
  /\ UNCHANGED <<cfgVars, srcVars, destLabels, inflight, fetchVars, gateVars,
                 summary, mainLabelId, labelMap, labelIds, j, cgVars, v1Vars,
                 limiterVars, backoffVars>>

\* lines 190-198: messages.modify with the main label and the sublabel
transferEmailsForLabel_modify ==
  /\ pc = "transferEmailsForLabel_modify"
  /\ \E r \in Results :
       /\ calls' = Append(calls, Call("dest", "messages.modify", importedId, "",
                                      {mainLabelId, sublabelId}, r, FALSE))
       /\ failures' = failures + Failed(r)
       /\ IF r # "ok"
          THEN Throw /\ UNCHANGED <<destMessages, i, summary, k, emailsTransferred>>
          ELSE /\ destMessages' = Modified(destMessages, importedId,
                                           {mainLabelId, sublabelId})
               /\ NextMessage(emailsTransferred + 1)
  /\ UNCHANGED <<cfgVars, srcVars, destLabels, inflight, listed, emails,
                 resolved, gateVars, mainLabelId, labelMap, labelIds,
                 importedId, j, cgVars, sourceLabels, sublabelId, limiterVars, backoffVars>>

(***************************************************************************)
(* main (lines 272-306, 590-630).                                          *)
(***************************************************************************)
\* the script is started again without --dry-run after a dry run that
\* printed its summary (the use the README recommends, part_001 line 105)
main_rerun ==
  /\ pc = "done" /\ outcome = "returned" /\ isDryRun /\ run = 1
  /\ run' = 2
  /\ isDryRun' = FALSE
  /\ prevSummary' = summary
  /\ prevClean' = (failures = 0)
  /\ calls' = <<>> /\ inflight' = {} /\ outcome' = "running" /\ failures' = 0
  /\ pc' = IF variant = 1 THEN "getLabels" ELSE "getAllUniqueEmails_list"
  /\ listed' = <<>> /\ emails' = <<>> /\ i' = 0 /\ resolved' = EmptyMap
  /\ answer' = "" /\ affirmed' = FALSE /\ prompts' = 0 /\ confirmed' = FALSE
  /\ summary' = NoSummary /\ mainLabelId' = "" /\ labelMap' = EmptyMap
  /\ labelIds' = <<>> /\ importedId' = "" /\ j' = 0
  /\ cgName' = "" /\ cgCaller' = ""
  /\ sourceLabels' = <<>> /\ k' = 0 /\ sublabelId' = "" /\ emailsTransferred' = 0
  /\ UNCHANGED <<variant, srcVars, destVars, limiterVars, backoffVars>>

Next ==
  \/ getAllUniqueEmails_list
  \/ getAllUniqueEmails_get
  \/ resolveLabelName
  \/ promptForConfirmation
  \/ transferEmails_confirmed
  \/ createOrGetLabel_lookup
  \/ createOrGetLabel_create
  \/ transferEmails_import
  \/ transferEmails_modify
  \/ transferEmails_dry
  \/ getLabels
  \/ countEmailsForLabel
  \/ transferEmailsForLabel_list
  \/ transferEmailsForLabel_metadata
  \/ checkIfEmailExists
  \/ transferEmailsForLabel_raw
  \/ transferEmailsForLabel_import
  \/ transferEmailsForLabel_modify
  \/ main_rerun

Spec == Init /\ [][Next]_vars

(***************************************************************************)
(* utils/rateLimiter.ts (src/unnamed/part_000): the RateLimiter, called by *)
(* any number of callers. The script is single-threaded: the code between  *)
(* two awaits runs as one step, and callers interleave at await sleep.     *)
(***************************************************************************)
Max(a, b) == IF a >= b THEN a ELSE b

\* the rates the limiter is constructed with: the 2 of line 32, the 1 the
\* README suggests (part_001 line 111), and half a token per second
Rates == {tokensPerSecond * MsPerSecond, MsPerSecond, MsPerSecond \div 2}

\* a refill that forgets the capacity
Refill_Uncapped(t, e, r) == t + e * r

\* line 19: Math.min(tokensPerSecond, tokens + ellapsedMs * (tokensPerSecond / 1000))
Refill(t, e, r) == Min(r * 1000, t + e * r)

\* a limiter that never makes a caller wait
HasToken_Always(t) == TRUE

\* a limiter that lets a caller through on any fraction of a token
HasToken_Partial(t) == t > 0

\* line 22, negated: this.tokens >= 1
HasToken(t) == t >= OneToken

\* line 23: (1 - tokens) * (1000 / tokensPerSecond), in whole ms as the timer
\* of line 24 takes it (setTimeout truncates, and waits at least 1 ms)
WaitMs(t, r) == Max(1, (OneToken - t) \div r)

\* lines 17-28, run by caller c up to its await or its return
waitForToken_body(c) ==
  LET t == Refill(tokens, ellapsedMs, rate) IN
    /\ ellapsedMs' = 0
    /\ IF HasToken(t)
       THEN /\ tokens' = t - OneToken
            /\ acquired' = acquired + 1
            /\ at' = [at EXCEPT ![c] = "returned"]
            /\ due' = [due EXCEPT ![c] = 0]
       ELSE /\ tokens' = t
            /\ acquired' = acquired
            /\ at' = [at EXCEPT ![c] = "sleep"]
            /\ due' = [due EXCEPT ![c] = WaitMs(t, rate)]

\* every variable of the transfer script
scriptVars ==
  <<cfgVars, srcVars, destVars, calls, inflight, pc, outcome, failures,
    fetchVars, gateVars, xferVars, cgVars, v1Vars>>

\* line 16: caller c calls rateLimiter.waitForToken()
waitForToken(c) ==
  /\ at[c] = "idle"
  /\ waitForToken_body(c)
  /\ burst' = (burst /\ clock = 0)
  /\ UNCHANGED <<scriptVars, backoffVars, rate, clock>>

\* lines 24-25: the timer of caller c has fired; it calls waitForToken again
waitForToken_wake(c) ==
  /\ at[c] = "sleep" /\ due[c] = 0
  /\ waitForToken_body(c)
  /\ UNCHANGED <<scriptVars, backoffVars, rate, clock, burst>>

\* Date.now() advances by TickMs; a timer that is due may still fire later
Tick ==
  /\ clock < MaxClock \/ ellapsedMs < MsPerSecond \/ \E c \in Callers : due[c] > 0
  /\ clock' = Min(clock + TickMs, MaxClock)
  /\ ellapsedMs' = Min(ellapsedMs + TickMs, MsPerSecond)
  /\ due' = [c \in Callers |-> Max(due[c] - TickMs, 0)]
  /\ UNCHANGED <<scriptVars, backoffVars, rate, tokens, acquired, at, burst>>

\* a limiter of any rate, next to a script that has not started
LimiterInit ==
  /\ variant = 2 /\ isDryRun = TRUE
  /\ run = 1 /\ prevSummary = NoSummary /\ prevClean = FALSE
  /\ srcLabels = SourceLabelList /\ srcMessages = <<>> /\ pageLen = 1
  /\ destLabels = {} /\ destMessages = <<>>
  /\ RunStart(variant)
  /\ \E r \in Rates : NewRateLimiter(r)
  /\ NoBackoff

LimiterNext ==
  \/ \E c \in Callers : waitForToken(c)
  \/ \E c \in Callers : waitForToken_wake(c)
  \/ Tick

LimiterSpec == LimiterInit /\ [][LimiterNext]_vars

\* the event loop runs every timer that is due, and time passes
LimiterLive ==
  /\ LimiterSpec
  /\ WF_vars(Tick)
  /\ \A c \in Callers : WF_vars(waitForToken_wake(c))

(***************************************************************************)
(* utils/rateLimiter.ts (src/unnamed/part_000): exponentialBackoff. The    *)
(* delay of line 35 does not fit a 32-bit integer from retries = 22 on, so *)
(* it is never computed whole: it is compared in seconds, and the number   *)
(* of ms the timer is armed for always fits.                               *)
(***************************************************************************)
\* the largest attempt number exponentialBackoff is called with
MaxAttempt == 22

Attempts == 1..MaxAttempt

\* Math.random() * 1000 lies in [0, 1000); the timer drops the fraction
Jitters == {0, 1, 250, 500, 647, 999}

RECURSIVE Pow2(_)
\* line 35: Math.pow(2, retries)
Pow2(a) == IF a = 0 THEN 1 ELSE 2 * Pow2(a - 1)

\* the longest delay setTimeout accepts, 2^31 - 1 ms; sleep is
\* promisify(setTimeout) (line 3)
TIMEOUT_MAX == 2147483647

\* whether Math.pow(2, a) * 1000 + rnd <= TIMEOUT_MAX
FitsTimer(a, rnd) == Pow2(a) <= (TIMEOUT_MAX - rnd) \div MsPerSecond

\* lines 35-36: the ms the timer of sleep(delay) is armed for; setTimeout
\* replaces a delay above TIMEOUT_MAX by 1 ms
TimerMs(a, rnd) ==
  IF FitsTimer(a, rnd) THEN Pow2(a) * MsPerSecond + rnd ELSE 1

\* lines 34-36: exponentialBackoff(a) up to its await
exponentialBackoff(a, rnd) ==
  /\ backoff = "idle"
  /\ retries' = a
  /\ random' = rnd
  /\ slept' = TimerMs(a, rnd)
  /\ backoff' = "sleep"
  /\ UNCHANGED <<scriptVars, limiterVars>>

\* lines 36-37: the timer fires and exponentialBackoff returns
exponentialBackoff_wake ==
  /\ backoff = "sleep"
  /\ backoff' = "returned"
  /\ UNCHANGED <<scriptVars, limiterVars, retries, random, slept>>

\* one call of exponentialBackoff, next to a script that has not started
BackoffInit ==
  /\ variant = 2 /\ isDryRun = TRUE
  /\ run = 1 /\ prevSummary = NoSummary /\ prevClean = FALSE
  /\ srcLabels = SourceLabelList /\ srcMessages = <<>> /\ pageLen = 1
  /\ destLabels = {} /\ destMessages = <<>>
  /\ RunStart(variant)
  /\ NewRateLimiter(tokensPerSecond * MsPerSecond)
  /\ NoBackoff

BackoffNext ==
  \/ \E a \in Attempts : \E rnd \in Jitters : exponentialBackoff(a, rnd)
  \/ exponentialBackoff_wake

BackoffSpec == BackoffInit /\ [][BackoffNext]_vars

(***************************************************************************)
(* Properties.                                                             *)
(***************************************************************************)
\* a call that changes an account
Mutating(c) == c.op \in {"labels.create", "messages.import", "messages.modify"}

MutatingCalls == {p \in DOMAIN calls : Mutating(calls[p])}

\* C1: in a dry run no labels.create, messages.import or messages.modify is
\* ever issued, on either account, whatever the mailbox and the answer.
C1_DryRunIssuesNoMutatingCall == isDryRun => MutatingCalls = {}

\* a dry run of two messages has returned its summary
C1_Witness ==
  /\ isDryRun /\ outcome = "returned"
  /\ summary.totalEmailsTransferred >= 2
  /\ Len(summary.labelsCreated) >= 2

\* C2 as stated: no mutating call before an affirmative answer, none at all
\* after another answer, and the prompt asked exactly once in every run.
C2_PromptExactlyOncePerRun ==
  /\ MutatingCalls # {} => prompts = 1 /\ affirmed
  /\ prompts <= 1
  /\ outcome # "running" => prompts = 1

\* C2 as amended: no mutating call before an affirmative answer, none at all
\* after another answer (the run then ends by process.exit); the prompt is
\* asked at most once per run, and exactly once in every run that returns a
\* summary or is declined (a run that a remote failure ends before the gate
\* asks nothing).
C2_GateBeforeMutation ==
  /\ MutatingCalls # {} => prompts = 1 /\ affirmed
  /\ prompts <= 1
  /\ outcome \in {"returned", "exited"} => prompts = 1
  /\ (pc # "transferEmails_confirmed" /\ prompts = 1 /\ ~affirmed)
       => outcome = "exited"
  /\ outcome = "exited" => prompts = 1 /\ ~affirmed

\* a live run that was confirmed has issued its mutating calls and returned
C2_Witness ==
  /\ ~isDryRun /\ outcome = "returned" /\ prompts = 1
  /\ Cardinality(MutatingCalls) >= 3

\* C3: every remote call is preceded by a completed waitForToken of its own,
\* so the calls issued never outnumber the tokens acquired.
C3_EveryCallHoldsToken == Len(calls) <= acquired

\* the calls made for one message
PerMessage(c) == c.op \in {"messages.get", "messages.import", "messages.modify"}

\* C4: a non-transient failure of a fetch, import or label-apply abandons
\* only that message: the run does not end by throwing.
C4_FailureAbandonsOnlyThatMessage ==
  (\E p \in DOMAIN calls : PerMessage(calls[p]) /\ calls[p].res = "fatal")
    => outcome # "threw"

SourceList(c) == c.acct = "source" /\ c.op = "messages.list"

\* C5: every messages.list response that carries a nextPageToken is followed
\* by a further messages.list of the same listing, and every message of every
\* page is processed.
C5_EveryPageIsListed ==
  (outcome = "returned" /\ failures = 0) =>
    /\ \A p \in DOMAIN calls :
         (SourceList(calls[p]) /\ calls[p].more) =>
           \E q \in DOMAIN calls :
             q > p /\ SourceList(calls[q]) /\ calls[q].id = calls[p].id
    /\ variant = 2 => Len(emails) = Len(srcMessages)

TransientGets(id) ==
  {p \in DOMAIN calls : calls[p].op = "messages.get" /\ calls[p].id = id
                          /\ calls[p].res = "transient"}

\* C6: a messages.get that fails with a transient signature is fetched again,
\* until maxRetries retries have failed; the run goes on.
C6_TransientFetchIsRetried ==
  \A p \in DOMAIN calls :
    (calls[p].op = "messages.get" /\ calls[p].res = "transient"
       /\ outcome # "running") =>
      /\ outcome # "threw"
      /\ \/ \E q \in DOMAIN calls :
              q > p /\ calls[q].op = "messages.get" /\ calls[q].id = calls[p].id
         \/ Cardinality(TransientGets(calls[p].id)) > maxRetries

\* the names the specification excludes from mirroring
Reserved(name) ==
  StartsWith(name, "CATEGORY_") \/ name \in {"UNREAD", "STARRED", "IMPORTANT"}

ReservedMirrors ==
  {sourceEmail \o "/" \o srcLabels[p].name :
     p \in {q \in DOMAIN srcLabels : Reserved(srcLabels[q].name)}}

\* C7: the destination label of a reserved source label is never looked up
\* or created, its id is never in an addLabelIds, and its name is never in
\* summary.labelsCreated.
C7_ReservedLabelsNeverMirrored ==
  /\ \A p \in DOMAIN calls : calls[p].name \notin ReservedMirrors
  /\ \A l \in destLabels :
       l.name \in ReservedMirrors =>
         \A p \in DOMAIN calls : l.id \notin calls[p].labels
  /\ \A p \in DOMAIN summary.labelsCreated :
       summary.labelsCreated[p] \notin ReservedMirrors

\* the destination label calls of this run made so far for one name
LabelCalls(op, name) ==
  {p \in DOMAIN calls : calls[p].acct = "dest" /\ calls[p].op = op
                          /\ calls[p].name = name}

\* a call to look a destination label up, or to create it
LabelCall(c) == c.acct = "dest" /\ c.op \in {"labels.list", "labels.create"}

\* C8: in one run every destination label name is looked up at most once and
\* created at most once, however many messages carry the label (a step never
\* issues a lookup or a create for a name the run already issued one for), and
\* labelMap only grows: a name it maps keeps its id for the rest of the run.
C8_OneLookupPerLabel ==
  [][/\ \A p \in DOMAIN calls' :
          (p > Len(calls) /\ LabelCall(calls'[p])) =>
            LabelCalls(calls'[p].op, calls'[p].name) = {}
     /\ run' = run =>
          \A n \in DOMAIN labelMap :
            n \in DOMAIN labelMap' /\ labelMap'[n] = labelMap[n]]_vars

C8_Witness ==
  /\ variant = 2 /\ ~isDryRun /\ outcome = "returned"
  /\ Len(emails) = 2
  /\ "Work" \in Range(emails[1].labels) \cap Range(emails[2].labels)
  /\ "Work" \in DOMAIN labelMap

DestId(name) ==
  IF \E l \in destLabels : l.name = name
  THEN (CHOOSE l \in destLabels : l.name = name).id
  ELSE "none"

\* the label ids the message of the source owes its copy in the destination
Owed(raw) ==
  {DestId(sourceEmail)} \cup
  {DestId(sourceEmail \o "/" \o LabelName(id)) :
     id \in {x \in SrcMessage(raw).labelIds : ~Reserved(LabelName(x))}}

\* C9: after a confirmed live run without failures, every imported message
\* got, in one messages.modify, the main label and the mirror of every
\* label outside the reserved names that it carries in the source.
C9_EveryLabelApplied ==
  (~isDryRun /\ outcome = "returned" /\ failures = 0) =>
    \A d \in DOMAIN destMessages :
      \E p \in DOMAIN calls :
        /\ calls[p].op = "messages.modify"
        /\ calls[p].id = destMessages[d].id
        /\ calls[p].labels = Owed(destMessages[d].raw)

\* C10: on the same mailboxes and without failures, the dry run and the live
\* run return the same totalEmailsTransferred and the same labelsCreated set.
C10_DryRunPredictsLiveRun ==
  (run = 2 /\ outcome = "returned" /\ failures = 0 /\ prevClean) =>
    /\ summary.totalEmailsTransferred = prevSummary.totalEmailsTransferred
    /\ Range(summary.labelsCreated) = Range(prevSummary.labelsCreated)

\* C11: once the prompt has been answered with a decline, transferEmails
\* returns to its caller a summary that counts no message and names no label
\* but the main one.
C11_DeclineReturnsZeroSummary ==
  (prompts = 1 /\ ~affirmed /\ pc \notin {"promptForConfirmation",
                                           "transferEmails_confirmed"}) =>
    /\ outcome = "returned"
    /\ summary.totalEmailsTransferred = 0
    /\ Range(summary.labelsCreated) \subseteq {sourceEmail}

\* the operations that only read an account
ReadOps == {"labels.list", "labels.get", "messages.list", "messages.get"}

\* C16: the source account is never mutated: after every step, in every run,
\* each call issued on the source handle is a labels.list, labels.get,
\* messages.list or messages.get, and the step leaves the source mailbox's
\* messages and labels as they were.
C16_SourceNeverMutated ==
  [][/\ \A p \in DOMAIN calls' :
          calls'[p].acct = "source" => calls'[p].op \in ReadOps
     /\ srcMessages' = srcMessages
     /\ srcLabels' = srcLabels]_vars

C16_Witness ==
  /\ ~isDryRun /\ outcome = "returned"
  /\ Len(destMessages) = Len(srcMessages) /\ Len(srcMessages) >= 2
  /\ \E p \in DOMAIN calls :
       calls[p].acct = "source" /\ calls[p].op = "messages.get"
  /\ \E p \in DOMAIN calls :
       calls[p].acct = "dest" /\ calls[p].op = "messages.modify"
            /\ calls[p].res = "ok"

\* the messages.get of this run that fetched message id
FetchOf(id) ==
  CHOOSE p \in DOMAIN calls : calls[p].op = "messages.get" /\ calls[p].id = id

\* C17: resolveLabelName never raises. Every fetched message carries one
\* name per label id, the resolved name where its labels.get succeeded and
\* the raw label id where it failed; once no labels.get is pending every
\* message fetched so far is among the emails; and a run that ended in
\* main's catch was not ended by a labels.get.
C17_FailedLookupYieldsRawId ==
  /\ \A q \in DOMAIN emails :
       LET ids == SeqOfSet(SrcMessage(emails[q].id).labelIds, LabelIdOrder)
           g == FetchOf(emails[q].id)
       IN /\ Len(emails[q].labels) = Len(ids)
          /\ \A n \in DOMAIN ids :
               emails[q].labels[n] =
                 IF calls[g + n].res = "ok" THEN LabelName(ids[n]) ELSE ids[n]
  /\ (variant = 2 /\ inflight = {}) =>
       \A p \in DOMAIN calls :
         (calls[p].op = "messages.get" /\ calls[p].res = "ok") =>
           \E q \in DOMAIN emails : emails[q].id = calls[p].id
  /\ outcome = "threw" => calls[Len(calls)].op # "labels.get"

C17_Witness ==
  /\ variant = 2 /\ outcome = "returned"
  /\ \E q \in DOMAIN emails :
       /\ emails[q].labels = <<"INBOX", "Label_1">>
       /\ calls[FetchOf(emails[q].id) + 2].res \in {"transient", "fatal"}

\* C18 as stated: the gate proceeds only on the one exact token the prompt
\* asks for, 'y'; every other answer, a case variant included, is a decline.
C18_OnlyExactTokenProceeds ==
  [][(pc = "transferEmails_confirmed" /\ answer # "y") =>
       outcome' = "exited"]_vars

\* C18 as amended: the gate proceeds exactly on the answers that read 'y' or
\* 'yes' in any letter case; every other answer (empty, 'n', 'no') makes the
\* process exit.
C18_ProceedsOnYOrYesAnyCase ==
  [][pc = "transferEmails_confirmed" =>
       IF answer \in {"y", "Y", "yes", "Yes", "YES"}
       THEN confirmed' /\ outcome' # "exited"
       ELSE ~confirmed' /\ outcome' = "exited" /\ pc' = "done"]_vars

C18_Witness ==
  /\ prompts = 1 /\ confirmed /\ affirmed /\ answer = ""
  /\ ~isDryRun /\ pc = "createOrGetLabel_lookup" /\ cgCaller = "main"

\* C19: at most one remote call is in flight at any time of a run.
C19_OneCallInFlight == Cardinality(inflight) <= 1

\* the messages.import calls among the first n calls that succeeded
OkImports(n) ==
  Cardinality({q \in 1..n : calls[q].op = "messages.import" /\ calls[q].res = "ok"})

\* C20: every messages.modify follows a messages.import that succeeded, with
\* no other import or modify between the two, and targets the id that import
\* returned; a messages.import that failed is followed by no call at all.
C20_ModifyFollowsItsImport ==
  /\ \A p \in DOMAIN calls :
       calls[p].op = "messages.modify" =>
         \E q \in 1..(p - 1) :
           /\ calls[q].op = "messages.import" /\ calls[q].res = "ok"
           /\ \A x \in (q + 1)..(p - 1) :
                calls[x].op \notin {"messages.import", "messages.modify"}
           /\ OkImports(q) \in DOMAIN destMessages
           /\ destMessages[OkImports(q)].raw = calls[q].name
           /\ calls[p].id = destMessages[OkImports(q)].id
  /\ \A q \in DOMAIN calls :
       (calls[q].op = "messages.import" /\ calls[q].res # "ok") => q = Len(calls)

C20_Witness ==
  /\ ~isDryRun /\ outcome = "returned"
  /\ Cardinality({p \in DOMAIN calls : calls[p].op = "messages.modify"}) = 2
  /\ calls[Len(calls)].id = "d2"

\* C12: at construction, at every suspension and at every return of
\* waitForToken, for any number of interleaved callers and any rate,
\* 0 <= tokens <= tokensPerSecond.
C12_TokensWithinCapacity == 0 <= tokens /\ tokens <= rate * 1000

C12_Witness ==
  /\ acquired = MaxCallers
  /\ \E c \in Callers : at[c] = "returned" /\ ~burst
  /\ tokens > 0 /\ tokens < rate * 1000
  /\ clock >= MsPerSecond

\* C13: for every positive rate, every call of waitForToken eventually
\* returns while the clock keeps advancing, and the step on which a call
\* returns leaves exactly one token less than the refilled amount.
C13_EveryCallReturns ==
  /\ [][\A c \in Callers :
         (at[c] # "returned" /\ at'[c] = "returned") =>
           tokens' = Refill(tokens, ellapsedMs, rate) - OneToken]_vars
  /\ \A c \in Callers : (at[c] # "idle") ~> (at[c] = "returned")

\* C14: for calls issued in a burst at the instant of construction on a
\* limiter with capacity = rate, the k-th call to return with k above the
\* capacity returns no earlier than (k - capacity) * (1000 / rate) ms
\* after the burst started (cross-multiplied by the rate to stay in integers;
\* acquired is k at the instant the k-th call returns).
C14_BurstPacedByRate ==
  (burst /\ clock < MaxClock /\ acquired * OneToken > rate * 1000) =>
    clock * rate >= acquired * OneToken - rate * 1000

C14_Witness ==
  /\ burst /\ rate = tokensPerSecond * MsPerSecond
  /\ acquired = tokensPerSecond + 1
  /\ clock * rate = OneToken
  /\ \A c \in Callers : at[c] = "returned"

\* C15: for every attempt number a >= 1, the delay slept by
\* exponentialBackoff(a) lies in [2^a * 1000, 2^a * 1000 + 1000) ms, that is,
\* its whole seconds are 2^a; and the deterministic component is
\* non-decreasing in a (compared in seconds).
C15_DelayInWindow ==
  /\ backoff # "idle" => slept \div MsPerSecond = Pow2(retries)
  /\ \A a \in Attempts : Pow2(a) <= Pow2(a + 1)

\* the names labels.create was called with on the destination in this run
CreatedNames ==
  {calls[p].name : p \in {q \in DOMAIN calls :
                            calls[q].acct = "dest" /\ calls[q].op = "labels.create"}}

\* C21: in a live run a name is in summary.labelsCreated if and only if a
\* labels.create call for that name was issued on the destination during
\* this run: labels found by lookup are not recorded, created ones are.
C21_RecordedIffCreated ==
  (~isDryRun /\ outcome = "returned") =>
    Range(summary.labelsCreated) = CreatedNames

\* the destination held no label when the script started: the labels it
\* may start with keep their ids, and the script never deletes one
StartedEmpty == destLabels \cap UNION DestLabelStates = {}

\* the imports of source message m the destination holds
ImportsOf(m) == {q \in DOMAIN destMessages : destMessages[q].raw = m.id}

\* C22: in a confirmed, failure-free live run on a single-page source
\* mailbox and an initially empty destination, every source message is
\* imported exactly once, and totalEmailsTransferred is the number of
\* source messages.
C22_EveryMessageImportedOnce ==
  (/\ ~isDryRun /\ outcome = "returned" /\ failures = 0
   /\ Len(srcMessages) <= pageLen /\ StartedEmpty) =>
    /\ \A p \in DOMAIN srcMessages : Cardinality(ImportsOf(srcMessages[p])) = 1
    /\ summary.totalEmailsTransferred = Len(srcMessages)

\* C23: for any number of callers interleaving at the sleep of
\* waitForToken, the calls that have returned by t ms after construction
\* number at most capacity + rate * t / 1000 (here with the tokens still in
\* the bucket added on the left, in millionths of a token), and no token is
\* taken twice: a step on which a call returns finds a whole token after
\* the refill, takes exactly that one, and returns exactly one call, also
\* when several callers are due at the same instant.
C23_ReturnsBoundedByRefill ==
  /\ [](clock < MaxClock =>
          acquired * OneToken + tokens <= rate * 1000 + clock * rate)
  /\ [][\A c \in Callers :
         (at[c] # "returned" /\ at'[c] = "returned") =>
           /\ Refill(tokens, ellapsedMs, rate) >= OneToken
           /\ tokens' = Refill(tokens, ellapsedMs, rate) - OneToken
           /\ acquired' = acquired + 1
           /\ \A d \in Callers \ {c} : at'[d] = at[d]]_vars

\* two callers slept through the same second; one woke and returned, the
\* other woke at the same instant, found no token and sleeps again
C23_Witness ==
  /\ burst /\ rate = MsPerSecond /\ clock = MsPerSecond /\ clock < MaxClock
  /\ acquired = 2
  /\ \E c \in Callers : at[c] = "sleep" /\ due[c] = MsPerSecond
  /\ tokens = 0

=============================================================================
